---------------------------- MODULE Spec2Model ----------------------------
(***************************************************************************)
(* Model of python/check.py: three HTTPS probes (urllib, requests, raw     *)
(* ssl socket), the aggregation of their results in main(), the fix        *)
(* suggestions and the emitted report.                                     *)
(*                                                                         *)
(* Strings whose content the code inspects (the requests error text, the   *)
(* fix commands) are sequences of atoms: `needle in s` is "some atom of s  *)
(* equals needle", str.replace substitutes atoms, str.lower maps atoms.    *)
(***************************************************************************)
EXTENDS Integers, Sequences, FiniteSets, TLC

VARIABLES url, timeout, requests_installed, existing,
          pc, net, urllib_result, requests_result, ssl_result,
          output, exit_code

vars == <<url, timeout, requests_installed, existing,
          pc, net, urllib_result, requests_result, ssl_result,
          output, exit_code>>

(***************************************************************************)
(* Bounds and inputs                                                       *)
(***************************************************************************)
\* command-line timeouts range over 1..MaxTimeout seconds
MaxTimeout == 1

Timeouts == 1..MaxTimeout

\* port text of the URL: absent, a digit string (its value), or not digits
NoPort      == [present |-> FALSE, digits |-> FALSE, value |-> 0]
PortText(n) == [present |-> TRUE,  digits |-> TRUE,  value |-> n]
BadPortText == [present |-> TRUE,  digits |-> FALSE, value |-> 0]

\* sample URLs: host atoms, port text, path atoms
Urls ==
  { [host |-> <<"example">>,             port |-> NoPort,      path |-> <<"/">>],
    [host |-> <<"ssl", "example">>,      port |-> PortText(8443), path |-> <<"/">>],
    [host |-> <<"host", "name">>,        port |-> PortText(0), path |-> <<"/">>],
    [host |-> <<"example">>,             port |-> NoPort,      path |-> <<"/", "Certificate">>],
    [host |-> <<"example">>,             port |-> BadPortText, path |-> <<"/">>] }

\* HTTP statuses a server may answer with (redirects are followed by both
\* HTTP clients and never surface)
Statuses == {200, 404, 500}

\* what the environment does to one connection attempt
Ev(kind, status) == [kind |-> kind, status |-> status]
ConnectKinds == {"dns_fail", "connect_timeout", "refused", "unreachable"}
TlsKinds     == {"cert_verify_fail", "tls_fault", "handshake_timeout"}
\* raw socket: handshake done, then nothing fails, or reading the peer
\* certificate raises ssl.SSLError, or closing the socket raises OSError
SocketKinds  == {"handshake_ok", "post_ssl_error", "post_os_error"}
TimeoutKinds == {"connect_timeout", "handshake_timeout", "read_timeout"}

HttpEvents   == {Ev(k, 0) : k \in ConnectKinds \cup TlsKinds \cup {"read_timeout"}}
                  \cup {Ev("http", s) : s \in Statuses}
SocketEvents == {Ev(k, 0) : k \in ConnectKinds \cup TlsKinds \cup SocketKinds}

NotAttempted == Ev("not_attempted", 0)
\* the HTTP clients reject a URL whose port is not a number before any
\* connection is attempted
InvalidUrl   == Ev("invalid_url", 0)
HasBadPort(u) == u.port.present /\ ~u.port.digits
HttpAttempts(u) == IF HasBadPort(u) THEN {InvalidUrl} ELSE HttpEvents
Methods == {"urllib", "requests", "ssl_socket"}

\* elapsed wall-clock milliseconds of an attempt, sampled at the extremes
Durations(t) == {0, t * 1000}

(***************************************************************************)
(* Python values                                                           *)
(***************************************************************************)
None == [py_none |-> TRUE]

\* status_code key of a result: absent, or the one status
NoStatus == {}

\* str.lower on an atom
Lower(a) ==
  CASE a = "Name" -> "name"
    [] a = "SSL" -> "ssl"
    [] a = "Certificate" -> "certificate"
    [] a = "SSLError" -> "sslerror"
    [] OTHER -> a

LowerStr(s) == [i \in DOMAIN s |-> Lower(s[i])]

\* `needle in s`
Contains(s, needle) == \E i \in DOMAIN s : s[i] = needle

\* direct base classes of the exception classes the probes can see
Bases(c) ==
  CASE c = "SSLCertVerificationError" -> {"SSLError", "ValueError"}
    [] c = "SSLError" -> {"OSError"}
    [] c = "timeout" -> {"OSError"}
    [] c = "gaierror" -> {"OSError"}
    [] c = "ConnectionRefusedError" -> {"OSError"}
    [] c = "URLError" -> {"OSError"}
    [] c = "HTTPError" -> {"URLError"}
    [] c = "ValueError" -> {"Exception"}
    [] c = "InvalidURL" -> {"Exception"}
    [] c = "OSError" -> {"Exception"}
    [] c = "requests.RequestException" -> {"OSError"}
    [] c = "requests.ConnectionError" -> {"requests.RequestException"}
    [] c = "requests.SSLError" -> {"requests.ConnectionError"}
    [] c = "requests.Timeout" -> {"requests.RequestException"}
    [] c = "requests.ConnectTimeout" -> {"requests.ConnectionError", "requests.Timeout"}
    [] c = "requests.ReadTimeout" -> {"requests.Timeout"}
    [] c = "requests.InvalidURL" -> {"requests.RequestException", "ValueError"}
    [] OTHER -> {}

RECURSIVE IsInstance(_, _)
\* isinstance(object of class c, base); "str" (a reason text) has no bases
IsInstance(c, base) ==
  \/ c = base
  \/ \E b \in Bases(c) : IsInstance(b, base)

\* an exception: its class, its .reason class (URLError), its .code
\* (HTTPError) and its str() as atoms
Exc(cls, reason, code, msg) ==
  [cls |-> cls, reason |-> reason, code |-> code, msg |-> msg]

\* the outcome of a library call: a value or a raised exception
Returned(s) == [raised |-> FALSE, status |-> s]
Raised(e)   == [raised |-> TRUE, exc |-> e]


(***************************************************************************)
(* Library calls                                                           *)
(***************************************************************************)
\* urllib.parse: ParseResult.port.  Raises ValueError for a port that is not
\* a number or is out of range; None (here 0) for an absent port
ParsePort(u) ==
  IF ~u.port.present THEN Returned(0)
  ELSE IF ~u.port.digits \/ u.port.value > 65535
       THEN Raised(Exc("ValueError", "", 0, <<"Port could not be cast to integer value">>))
       ELSE Returned(u.port.value)

\* urllib.request.urlopen: connection failures arrive wrapped in URLError,
\* a failure while reading the response arrives bare, a status outside 2xx
\* is raised as HTTPError (whose .reason is the status text)
urlopen(u, ev) ==
  IF ev = InvalidUrl
  THEN Raised(Exc("InvalidURL", "", 0, <<"nonnumeric port">>))
  ELSE CASE ev.kind = "dns_fail" ->
              Raised(Exc("URLError", "gaierror", 0, <<"Name", "or service not known">>))
         [] ev.kind \in {"connect_timeout", "handshake_timeout"} ->
              Raised(Exc("URLError", "timeout", 0, <<"timed out">>))
         [] ev.kind = "refused" ->
              Raised(Exc("URLError", "ConnectionRefusedError", 0, <<"Connection refused">>))
         [] ev.kind = "unreachable" ->
              Raised(Exc("URLError", "OSError", 0, <<"Network is unreachable">>))
         [] ev.kind = "cert_verify_fail" ->
              Raised(Exc("URLError", "SSLCertVerificationError", 0,
                         <<"certificate", "verify failed">>))
         [] ev.kind = "tls_fault" ->
              Raised(Exc("URLError", "SSLError", 0, <<"SSL", "wrong version number">>))
         [] ev.kind = "read_timeout" ->
              Raised(Exc("timeout", "", 0, <<"The read operation timed out">>))
         [] ev.kind = "http" ->
              IF ev.status >= 200 /\ ev.status < 300
              THEN Returned(ev.status)
              ELSE Raised(Exc("HTTPError", "str", ev.status, <<"HTTP Error">>))

\* str() of a requests connection-level exception: the pool (host), the
\* request path, then the cause
PoolText(u, cause) ==
  <<"HTTPSConnectionPool(host=">> \o u.host
     \o <<"Max retries exceeded with url: ">> \o u.path
     \o <<"Caused by">> \o cause

\* requests.get: every HTTP status is returned as a response
requests_get(u, ev) ==
  IF ev = InvalidUrl
  THEN Raised(Exc("requests.InvalidURL", "", 0, <<"Failed to parse">>))
  ELSE CASE ev.kind = "dns_fail" ->
              Raised(Exc("requests.ConnectionError", "", 0,
                  PoolText(u, <<"NameResolutionError", "Failed to ", "resolve">> \o u.host
                                 \o <<"Name", " or service not known">>)))
         [] ev.kind = "connect_timeout" ->
              Raised(Exc("requests.ConnectTimeout", "", 0,
                  PoolText(u, <<"ConnectTimeoutError", "Connection to ">> \o u.host
                                 \o <<" timed out">>)))
         [] ev.kind = "refused" ->
              Raised(Exc("requests.ConnectionError", "", 0,
                  PoolText(u, <<"NewConnectionError", "Connection refused">>)))
         [] ev.kind = "unreachable" ->
              Raised(Exc("requests.ConnectionError", "", 0,
                  PoolText(u, <<"NewConnectionError", "Network is unreachable">>)))
         [] ev.kind = "cert_verify_fail" ->
              Raised(Exc("requests.SSLError", "", 0,
                  PoolText(u, <<"SSLError", "certificate", " verify failed">>)))
         [] ev.kind = "tls_fault" ->
              Raised(Exc("requests.SSLError", "", 0,
                  PoolText(u, <<"SSLError", "wrong version number">>)))
         [] ev.kind \in {"read_timeout", "handshake_timeout"} ->
              Raised(Exc("requests.ReadTimeout", "", 0,
                  <<"HTTPSConnectionPool(host=">> \o u.host \o <<"Read timed out.">>))
         [] ev.kind = "http" -> Returned(ev.status)

\* socket.create_connection then SSLContext.wrap_socket
connect_and_wrap(ev) ==
  CASE ev.kind = "dns_fail" ->
         Raised(Exc("gaierror", "", 0, <<"Name", "or service not known">>))
    [] ev.kind \in {"connect_timeout", "handshake_timeout"} ->
         Raised(Exc("timeout", "", 0, <<"timed out">>))
    [] ev.kind = "refused" ->
         Raised(Exc("ConnectionRefusedError", "", 0, <<"Connection refused">>))
    [] ev.kind = "unreachable" ->
         Raised(Exc("OSError", "", 0, <<"Network is unreachable">>))
    [] ev.kind = "cert_verify_fail" ->
         Raised(Exc("SSLCertVerificationError", "", 0, <<"certificate", "verify failed">>))
    [] ev.kind = "tls_fault" ->
         Raised(Exc("SSLError", "", 0, <<"SSL", "wrong version number">>))
    [] ev.kind \in SocketKinds -> Returned(0)

\* the body of the with-block once the handshake is done: reading the
\* session and the peer certificate, then closing the socket
after_handshake(ev) ==
  CASE ev.kind = "post_ssl_error" ->
         Raised(Exc("SSLError", "", 0, <<"SSL", "could not decode certificate">>))
    [] ev.kind = "post_os_error" ->
         Raised(Exc("OSError", "", 0, <<"close failed">>))
    [] OTHER -> Returned(0)

(***************************************************************************)
(* The probes                                                              *)
(***************************************************************************)
\* the result dict every probe starts from
NewResult(method) ==
  [method |-> method, success |-> FALSE, error_type |-> "none",
   error_message |-> <<>>, duration_ms |-> 0, status_code |-> NoStatus]

\* which except clause of a try statement takes an exception of class cls:
\* the first one, in source order, whose class it is an instance of
FirstMatch(handlers, cls) ==
  CHOOSE i \in DOMAIN handlers :
     /\ IsInstance(cls, handlers[i])
     /\ \A j \in DOMAIN handlers : j < i => ~IsInstance(cls, handlers[j])

Failed(r, error_type, message) ==
  [r EXCEPT !.error_type = error_type, !.error_message = message]

urllib_handlers ==
  <<"SSLCertVerificationError", "SSLError", "URLError", "HTTPError",
    "timeout", "Exception">>

\* the except clauses of check_with_urllib
urllib_except(r, e) ==
  LET h == urllib_handlers[FirstMatch(urllib_handlers, e.cls)] IN
  CASE h = "SSLCertVerificationError" ->
         Failed(r, "ssl_error", <<"SSL certificate verification failed: ">> \o e.msg)
    [] h = "SSLError" ->
         Failed(r, "ssl_error", <<"SSL error: ">> \o e.msg)
    [] h = "URLError" ->
         IF IsInstance(e.reason, "SSLError")
         THEN Failed(r, "ssl_error", <<"SSL error: ">> \o e.msg)
         ELSE IF IsInstance(e.reason, "timeout")
         THEN Failed(r, "timeout", <<"Connection timed out: ">> \o e.msg)
         ELSE IF IsInstance(e.reason, "gaierror")
         THEN Failed(r, "dns_error", <<"DNS resolution failed: ">> \o e.msg)
         ELSE IF IsInstance(e.reason, "ConnectionRefusedError")
         THEN Failed(r, "network_error", <<"Connection refused: ">> \o e.msg)
         ELSE Failed(r, "network_error", <<"URL error: ">> \o e.msg)
    [] h = "HTTPError" ->
         [r EXCEPT !.success = TRUE, !.status_code = {e.code}]
    [] h = "timeout" ->
         Failed(r, "timeout", <<"Connection timed out">>)
    [] h = "Exception" ->
         Failed(r, "unknown", <<"Unexpected error: ", e.cls>> \o e.msg)

check_with_urllib(u, t, ev, elapsed) ==
  LET result   == NewResult("urllib")
      response == urlopen(u, ev)
      after    == IF response.raised
                  THEN urllib_except(result, response.exc)
                  ELSE [result EXCEPT !.success = TRUE,
                                      !.status_code = {response.status}]
  IN  [after EXCEPT !.duration_ms = elapsed]

requests_handlers ==
  <<"requests.SSLError", "requests.ConnectionError", "requests.Timeout", "Exception">>

\* the except clauses of check_with_requests
requests_except(r, e) ==
  LET h == requests_handlers[FirstMatch(requests_handlers, e.cls)]
      error_str == LowerStr(e.msg)
  IN
  CASE h = "requests.SSLError" ->
         Failed(r, "ssl_error", <<"SSL error: ">> \o e.msg)
    [] h = "requests.ConnectionError" ->
         Failed(r,
                IF Contains(error_str, "ssl") \/ Contains(error_str, "certificate")
                THEN "ssl_error"
                ELSE IF Contains(error_str, "name") \/ Contains(error_str, "resolve")
                THEN "dns_error"
                ELSE "network_error",
                <<"Connection error: ">> \o e.msg)
    [] h = "requests.Timeout" ->
         Failed(r, "timeout", <<"Connection timed out">>)
    [] h = "Exception" ->
         Failed(r, "unknown", <<"Unexpected error: ", e.cls>> \o e.msg)

check_with_requests(installed, u, t, ev, elapsed) ==
  LET result == NewResult("requests") IN
  IF ~installed
  THEN Failed(result, "runtime_missing", <<"requests library not installed">>)
  ELSE LET response == requests_get(u, ev)
           after    == IF response.raised
                       THEN requests_except(result, response.exc)
                       ELSE [result EXCEPT !.success = TRUE,
                                           !.status_code = {response.status}]
       IN  [after EXCEPT !.duration_ms = elapsed]

ssl_socket_handlers ==
  <<"SSLCertVerificationError", "SSLError", "gaierror", "timeout",
    "ConnectionRefusedError", "Exception">>

\* the except clauses of check_with_ssl_socket
ssl_socket_except(r, e) ==
  LET h == ssl_socket_handlers[FirstMatch(ssl_socket_handlers, e.cls)] IN
  CASE h = "SSLCertVerificationError" ->
         Failed(r, "ssl_error", <<"Certificate verification failed: ">> \o e.msg)
    [] h = "SSLError" ->
         Failed(r, "ssl_error", <<"SSL error: ">> \o e.msg)
    [] h = "gaierror" ->
         Failed(r, "dns_error", <<"DNS resolution failed: ">> \o e.msg)
    [] h = "timeout" ->
         Failed(r, "timeout", <<"Connection timed out">>)
    [] h = "ConnectionRefusedError" ->
         Failed(r, "network_error", <<"Connection refused: ">> \o e.msg)
    [] h = "Exception" ->
         Failed(r, "unknown", <<"Unexpected error: ", e.cls>> \o e.msg)

\* Returns [escaped, result]: the URL is parsed before the try statement,
\* so an exception of the parse leaves the function
check_with_ssl_socket(u, t, ev, elapsed) ==
  LET result == NewResult("ssl_socket")
      port   == ParsePort(u)
  IN
  IF port.raised
  THEN [escaped |-> TRUE, result |-> result]
  ELSE LET ssock == connect_and_wrap(ev)
           after ==
             IF ssock.raised
             THEN ssl_socket_except(result, ssock.exc)
             ELSE LET connected == [result EXCEPT !.success = TRUE]
                      body      == after_handshake(ev)
                  IN  IF body.raised
                      THEN ssl_socket_except(connected, body.exc)
                      ELSE connected
       IN  [escaped |-> FALSE, result |-> [after EXCEPT !.duration_ms = elapsed]]

(***************************************************************************)
(* Fix suggestions                                                         *)
(***************************************************************************)
Placeholder == "/path/to/ca-bundle.crt"

ca_paths ==
  <<"/etc/ssl/cert.pem", "/etc/ssl/certs/ca-certificates.crt",
    "/etc/pki/tls/certs/ca-bundle.crt">>

CaPathSet == {ca_paths[i] : i \in DOMAIN ca_paths}

\* cmd.replace(old, new)
Replace(cmd, old, new) == [i \in DOMAIN cmd |-> IF cmd[i] = old THEN new ELSE cmd[i]]

\* the suggestion before the scan of the CA bundle locations
BaseFix(method) ==
  IF method \in {"urllib", "ssl_socket"}
  THEN [description |-> "Set SSL_CERT_FILE environment variable to your CA bundle",
        env_vars    |-> [k \in {"SSL_CERT_FILE"} |-> Placeholder],
        commands    |-> << <<"export SSL_CERT_FILE=", Placeholder>>,
                           <<"# Or set SSL_CERT_DIR for a directory of certificates">>,
                           <<"export SSL_CERT_DIR=", "/path/to/certs/">> >>]
  ELSE IF method = "requests"
  THEN [description |-> "Set REQUESTS_CA_BUNDLE environment variable to your CA bundle",
        env_vars    |-> [k \in {"REQUESTS_CA_BUNDLE"} |-> Placeholder],
        commands    |-> << <<"export REQUESTS_CA_BUNDLE=", Placeholder>>,
                           <<"# Or use CURL_CA_BUNDLE which requests also respects">>,
                           <<"export CURL_CA_BUNDLE=", Placeholder>> >>]
  ELSE [description |-> "", env_vars |-> <<>>, commands |-> <<>>]

\* faulty variant: the loop lacks its break, so env_vars ends with the last existing
\* path while the commands keep the first one
ScanCaPaths_NoBreak(fix, fs, i) ==
  LET hits == {j \in i..Len(ca_paths) : ca_paths[j] \in fs} IN
  IF hits = {} THEN fix
  ELSE LET first == CHOOSE j \in hits : \A k \in hits : j <= k
           last  == CHOOSE j \in hits : \A k \in hits : k <= j
       IN  [fix EXCEPT
              !.env_vars = [k \in DOMAIN fix.env_vars |-> ca_paths[last]],
              !.commands = [c \in DOMAIN fix.commands |->
                              Replace(fix.commands[c], Placeholder, ca_paths[first])]]

RECURSIVE ScanCaPaths(_, _, _)
\* the for loop over ca_paths from index i on: the first existing path is
\* substituted and the loop breaks
ScanCaPaths(fix, fs, i) ==
  IF i > Len(ca_paths) THEN fix
  ELSE IF ca_paths[i] \in fs
       THEN [fix EXCEPT
               !.env_vars = [k \in DOMAIN fix.env_vars |-> ca_paths[i]],
               !.commands = [c \in DOMAIN fix.commands |->
                               Replace(fix.commands[c], Placeholder, ca_paths[i])]]
       ELSE ScanCaPaths(fix, fs, i + 1)

generate_fix_suggestion(error_type, method, fs) ==
  IF error_type # "ssl_error" THEN None
  ELSE ScanCaPaths(BaseFix(method), fs, 1)

(***************************************************************************)
(* main(): aggregation and report                                          *)
(***************************************************************************)
IsTestable(r) == r.error_type # "runtime_missing"
HasFailed(r)  == ~r.success

\* faulty variant: the runtime_missing result is not filtered out
TestableResults_KeepsMissing(all_results) == all_results

TestableResults(all_results) == SelectSeq(all_results, IsTestable)

OverallSuccess(all_results) ==
  LET testable_results == TestableResults(all_results)
  IN  \A i \in DOMAIN testable_results : testable_results[i].success

\* faulty variant: failures are taken from all results, not from the testable ones
FailedResults_Unfiltered(all_results) == SelectSeq(all_results, HasFailed)

FailedResults(all_results) == SelectSeq(TestableResults(all_results), HasFailed)

PrimaryResult(all_results) ==
  LET failed_results == FailedResults(all_results)
  IN  IF failed_results # <<>> THEN failed_results[1] ELSE all_results[1]

\* faulty variant: the success flag is not consulted
WantsFix_IgnoresSuccess(r) == r.error_type = "ssl_error"

\* whether main() asks for a fix for this result
WantsFix(r) == ~r.success /\ r.error_type = "ssl_error"

Fixes(all_results, fs) ==
  LET wanted == {i \in DOMAIN all_results :
                   /\ WantsFix(all_results[i])
                   /\ generate_fix_suggestion(all_results[i].error_type,
                                              all_results[i].method, fs) # None}
      of(m)  == CHOOSE i \in wanted : all_results[i].method = m
  IN  [m \in {all_results[i].method : i \in wanted} |->
         generate_fix_suggestion(all_results[of(m)].error_type, m, fs)]

\* fixes.get("urllib") or fixes.get("requests") or fixes.get("ssl_socket") or None
PrimaryFix(fixes) ==
  IF "urllib" \in DOMAIN fixes THEN fixes["urllib"]
  ELSE IF "requests" \in DOMAIN fixes THEN fixes["requests"]
  ELSE IF "ssl_socket" \in DOMAIN fixes THEN fixes["ssl_socket"]
  ELSE None

Report(all_results, fs) ==
  LET success        == OverallSuccess(all_results)
      primary_result == PrimaryResult(all_results)
      fixes          == Fixes(all_results, fs)
  IN  [success       |-> success,
       error_type    |-> primary_result.error_type,
       error_message |-> primary_result.error_message,
       error_code    |-> IF success THEN 0 ELSE 1,
       duration_ms   |-> primary_result.duration_ms,
       fix           |-> PrimaryFix(fixes),
       fixes         |-> fixes]

(***************************************************************************)
(* The run                                                                 *)
(***************************************************************************)
Init ==
  /\ url \in Urls
  /\ timeout \in Timeouts
  /\ requests_installed \in BOOLEAN
  /\ existing \in SUBSET CaPathSet
  /\ pc = "urllib"
  /\ net = [m \in Methods |-> NotAttempted]
  /\ urllib_result = None
  /\ requests_result = None
  /\ ssl_result = None
  /\ output = None
  /\ exit_code = None

RunUrllib ==
  /\ pc = "urllib"
  /\ \E ev \in HttpAttempts(url), elapsed \in Durations(timeout) :
       /\ urllib_result' = check_with_urllib(url, timeout, ev, elapsed)
       /\ net' = [net EXCEPT !["urllib"] = ev]
  /\ pc' = "requests"
  /\ UNCHANGED <<url, timeout, requests_installed, existing,
                 requests_result, ssl_result, output, exit_code>>

RunRequests ==
  /\ pc = "requests"
  /\ IF requests_installed
     THEN \E ev \in HttpAttempts(url), elapsed \in Durations(timeout) :
            /\ requests_result' = check_with_requests(TRUE, url, timeout, ev, elapsed)
            /\ net' = [net EXCEPT !["requests"] = ev]
     ELSE /\ requests_result' = check_with_requests(FALSE, url, timeout, NotAttempted, 0)
          /\ net' = net
  /\ pc' = "ssl_socket"
  /\ UNCHANGED <<url, timeout, requests_installed, existing,
                 urllib_result, ssl_result, output, exit_code>>

\* an exception that leaves check_with_ssl_socket leaves main() too: the
\* interpreter prints a traceback and exits with status 1, without a report
RunSslSocket ==
  /\ pc = "ssl_socket"
  /\ \E ev \in SocketEvents, elapsed \in Durations(timeout) :
       LET call == check_with_ssl_socket(url, timeout, ev, elapsed) IN
       IF call.escaped
       THEN /\ pc' = "crashed"
            /\ exit_code' = 1
            /\ UNCHANGED <<ssl_result, net>>
       ELSE /\ pc' = "aggregate"
            /\ ssl_result' = call.result
            /\ net' = [net EXCEPT !["ssl_socket"] = ev]
            /\ UNCHANGED exit_code
  /\ UNCHANGED <<url, timeout, requests_installed, existing,
                 urllib_result, requests_result, output>>

\* main() from the aggregation to sys.exit
Aggregate ==
  /\ pc = "aggregate"
  /\ output' = Report(<<urllib_result, requests_result, ssl_result>>, existing)
  /\ exit_code' = IF output'.success THEN 0 ELSE 1
  /\ pc' = "exited"
  /\ UNCHANGED <<url, timeout, requests_installed, existing, net,
                 urllib_result, requests_result, ssl_result>>

Next == RunUrllib \/ RunRequests \/ RunSslSocket \/ Aggregate

Spec == Init /\ [][Next]_vars

(***************************************************************************)
(* Properties                                                              *)
(***************************************************************************)
ResultOf(m) ==
  CASE m = "urllib" -> urllib_result
    [] m = "requests" -> requests_result
    [] m = "ssl_socket" -> ssl_result

\* the probe of method m has returned its result
Returned_(m) == ResultOf(m) # None

Taxonomy ==
  {"none", "ssl_error", "timeout", "dns_error", "network_error",
   "runtime_missing", "unknown"}

\* C1: in the urllib and requests probes, a completed exchange with any HTTP
\* status gives success = true, error_type = none and that status_code
C1_HttpStatusIsSuccess ==
  \A m \in {"urllib", "requests"} :
     (Returned_(m) /\ net[m].kind = "http") =>
        /\ ResultOf(m).success
        /\ ResultOf(m).error_type = "none"
        /\ ResultOf(m).status_code = {net[m].status}

\* C2: in every returned result success holds exactly when error_type is
\* none, except the requests-not-installed result (failed, runtime_missing)
C2_SuccessIffNoError ==
  \A m \in Methods :
     Returned_(m) =>
        \/ (ResultOf(m).success <=> ResultOf(m).error_type = "none")
        \/ /\ m = "requests"
           /\ ~requests_installed
           /\ ~ResultOf(m).success
           /\ ResultOf(m).error_type = "runtime_missing"

\* C3: no exception leaves a probe: the run never ends in a traceback, and
\* every returned result carries an error_type of the taxonomy
C3_NoExceptionEscapes ==
  /\ pc # "crashed"
  /\ \A m \in Methods : Returned_(m) => ResultOf(m).error_type \in Taxonomy

\* C4: the reported success is true exactly when every result that is not
\* runtime_missing succeeded; exit code and error_code are 0 for true, 1 for false
C4_OverallSuccess ==
  pc = "exited" =>
     /\ output.success <=>
           \A m \in Methods :
              ResultOf(m).error_type # "runtime_missing" => ResultOf(m).success
     /\ exit_code = (IF output.success THEN 0 ELSE 1)
     /\ output.error_code = exit_code

C4_Witness ==
  /\ pc = "exited"
  /\ requests_result.error_type = "runtime_missing"
  /\ urllib_result.success /\ ssl_result.success
  /\ output.success /\ exit_code = 0

\* the primary result as C5 describes it
C5_Primary ==
  IF ~urllib_result.success /\ urllib_result.error_type # "runtime_missing"
  THEN urllib_result
  ELSE IF ~requests_result.success /\ requests_result.error_type # "runtime_missing"
  THEN requests_result
  ELSE IF ~ssl_result.success /\ ssl_result.error_type # "runtime_missing"
  THEN ssl_result
  ELSE urllib_result

\* C5: the top-level error_type, error_message and duration_ms are those of
\* the first testable failed result in the order urllib, requests,
\* ssl_socket, or of the urllib result when no testable result failed
C5_PrimaryResult ==
  pc = "exited" =>
     /\ output.error_type = C5_Primary.error_type
     /\ output.error_message = C5_Primary.error_message
     /\ output.duration_ms = C5_Primary.duration_ms

C5_Witness ==
  /\ pc = "exited"
  /\ urllib_result.success
  /\ requests_result.error_type = "runtime_missing"
  /\ ~ssl_result.success
  /\ ssl_result.duration_ms # urllib_result.duration_ms
  /\ output.error_type = ssl_result.error_type
  /\ output.duration_ms = ssl_result.duration_ms

\* C6: an attempt that exceeded the deadline, while connecting or while
\* reading, is reported as timeout by every probe
C6_DeadlineIsTimeout ==
  \A m \in Methods :
     (Returned_(m) /\ net[m].kind \in TimeoutKinds) =>
        ResultOf(m).error_type = "timeout"

\* C7: an unresolvable hostname is reported as dns_error and a generic
\* connection failure as network_error, whatever the URL contains
C7_DnsAndNetworkErrors ==
  \A m \in Methods :
     Returned_(m) =>
        /\ net[m].kind = "dns_fail" => ResultOf(m).error_type = "dns_error"
        /\ net[m].kind \in {"refused", "unreachable"} =>
              ResultOf(m).error_type = "network_error"

\* C8: the keys of fixes are exactly the methods whose result has
\* error_type ssl_error, each with a suggestion that is not None
C8_FixesKeys ==
  pc = "exited" =>
     /\ DOMAIN output.fixes = {m \in Methods : ResultOf(m).error_type = "ssl_error"}
     /\ \A m \in DOMAIN output.fixes : output.fixes[m] # None

\* the first existing CA bundle location in list order
FirstExisting ==
  ca_paths[CHOOSE i \in DOMAIN ca_paths :
             /\ ca_paths[i] \in existing
             /\ \A j \in DOMAIN ca_paths : ca_paths[j] \in existing => i <= j]

\* C9 as stated: with an existing CA bundle location, every env_vars value
\* is the first existing one and every command contains it; with none, the
\* placeholder remains
C9_EveryCommandHasPath ==
  pc = "exited" =>
     \A m \in DOMAIN output.fixes :
        LET fix == output.fixes[m] IN
        IF existing # {}
        THEN /\ \A k \in DOMAIN fix.env_vars : fix.env_vars[k] = FirstExisting
             /\ \A c \in DOMAIN fix.commands : Contains(fix.commands[c], FirstExisting)
        ELSE fix = BaseFix(m)

\* C9 amended: with an existing CA bundle location, every env_vars value is
\* the first existing one, every command that held the placeholder holds
\* that path in its place, and the other commands (the comment line, the
\* SSL_CERT_DIR command) are unchanged; with none, the placeholder remains
C9_PlaceholderReplaced ==
  pc = "exited" =>
     \A m \in DOMAIN output.fixes :
        LET fix  == output.fixes[m]
            base == BaseFix(m)
        IN
        IF existing # {}
        THEN /\ DOMAIN fix.env_vars = DOMAIN base.env_vars
             /\ \A k \in DOMAIN fix.env_vars : fix.env_vars[k] = FirstExisting
             /\ DOMAIN fix.commands = DOMAIN base.commands
             /\ \A c \in DOMAIN fix.commands :
                   /\ ~Contains(fix.commands[c], Placeholder)
                   /\ IF Contains(base.commands[c], Placeholder)
                      THEN Contains(fix.commands[c], FirstExisting)
                      ELSE fix.commands[c] = base.commands[c]
        ELSE /\ \A k \in DOMAIN fix.env_vars : fix.env_vars[k] = Placeholder
             /\ fix.commands = base.commands

C9_Witness ==
  /\ pc = "exited"
  /\ ca_paths[1] \notin existing
  /\ Cardinality(existing) = 2
  /\ DOMAIN output.fixes = Methods
  /\ output.fixes["requests"].env_vars["REQUESTS_CA_BUNDLE"] = ca_paths[2]
  /\ Contains(output.fixes["urllib"].commands[1], ca_paths[2])

\* C10: a report with success = true has error_type none, no fixes and a
\* null fix; a fix or a non-empty fixes mapping only comes with
\* success = false and exit code 1
C10_SuccessHasNoFix ==
  pc = "exited" =>
     /\ output.success =>
           /\ output.error_type = "none"
           /\ DOMAIN output.fixes = {}
           /\ output.fix = None
     /\ (output.fix # None \/ DOMAIN output.fixes # {}) =>
           /\ ~output.success
           /\ exit_code = 1

C10_Witness ==
  /\ pc = "exited"
  /\ output.success
  /\ ssl_result.error_type = "ssl_error"
  /\ output.fix = None

=============================================================================
